---- MODULE Spec2Model ----
(***************************************************************************)
(* Model of jarvis/tools/slme.py: the dielectric tensor container, the     *)
(* radiation spectrum constructor, and the two efficiency queries          *)
(* calculate_SQ and slme with their shared voltage hill-climb.             *)
(*                                                                         *)
(* Numbers.  The program computes in IEEE double precision.  The model     *)
(* keeps the structure of that arithmetic in integers: a value is a finite *)
(* integer of magnitude at most FMax, or one of PInf, NInf, NaN.  Every    *)
(* arithmetic operator below propagates the special values the way numpy   *)
(* does (0*inf = nan, x/0 = +-inf, nan compares false), and np.exp         *)
(* overflows to inf above MaxExpArg.  Exponentials are taken in base 2,    *)
(* which is a choice of unit for k*T.  Energies and voltages are counted   *)
(* in the same unit, wavelengths in ticks such that h*c = HC.              *)
(***************************************************************************)
EXTENDS Integers, Sequences, FiniteSets, TLC

----------------------------------------------------------------------------
(* Bounds of the model *)

FMax == 1000000000
MaxExpArg == 24
MaxTemp == 2
MaxThickness == 2

----------------------------------------------------------------------------
(* Floating point values and operators *)

PInf == FMax + 1
NInf == 0 - PInf
NaN == FMax + 2

Abs(x) == IF x < 0 THEN 0 - x ELSE x

IsInf(x) == x = PInf \/ x = NInf

FRound(x) == IF x > FMax THEN PInf ELSE IF x < 0 - FMax THEN NInf ELSE x

(* Each operator evaluates its operands once and then works on the values *)

FNeg(a) ==
    LET Op[x \in Int] == IF x = NaN THEN NaN ELSE 0 - x
    IN  Op[a]

FAdd(a, b) ==
    LET Op[x \in Int, y \in Int] ==
            IF x = NaN \/ y = NaN THEN NaN
            ELSE IF IsInf(x) /\ IsInf(y) THEN (IF x = y THEN x ELSE NaN)
            ELSE IF IsInf(x) THEN x
            ELSE IF IsInf(y) THEN y
            ELSE FRound(x + y)
    IN  Op[a, b]

FSub(a, b) == FAdd(a, FNeg(b))

FMul(a, b) ==
    LET Op[x \in Int, y \in Int] ==
            IF x = NaN \/ y = NaN THEN NaN
            ELSE IF x = 0 \/ y = 0 THEN (IF IsInf(x) \/ IsInf(y) THEN NaN ELSE 0)
            ELSE IF IsInf(x) \/ IsInf(y) \/ Abs(x) > FMax \div Abs(y)
                 THEN (IF (x > 0) = (y > 0) THEN PInf ELSE NInf)
            ELSE x * y
    IN  Op[a, b]

FDiv(a, b) ==
    LET Op[x \in Int, y \in Int] ==
            IF x = NaN \/ y = NaN THEN NaN
            ELSE IF IsInf(x) /\ IsInf(y) THEN NaN
            ELSE IF y = 0 THEN (IF x = 0 THEN NaN ELSE IF x > 0 THEN PInf ELSE NInf)
            ELSE IF IsInf(y) THEN 0
            ELSE IF IsInf(x) THEN (IF (x > 0) = (y > 0) THEN PInf ELSE NInf)
            ELSE IF (x >= 0) = (y > 0) THEN Abs(x) \div Abs(y)
            ELSE 0 - (Abs(x) \div Abs(y))
    IN  Op[a, b]

FGt(a, b) ==
    LET Op[x \in Int, y \in Int] == x # NaN /\ y # NaN /\ x > y
    IN  Op[a, b]

FLe(a, b) ==
    LET Op[x \in Int, y \in Int] == x # NaN /\ y # NaN /\ x <= y
    IN  Op[a, b]

RECURSIVE Pow2(_)
Pow2(n) == IF n <= 0 THEN 1 ELSE 2 * Pow2(n - 1)

(* An exponential that is clipped to the largest finite value *)
FExp_clipped(a) ==
    LET Op[x \in Int] ==
            IF x = NaN THEN NaN
            ELSE IF x = NInf THEN 0
            ELSE IF x > MaxExpArg THEN Pow2(MaxExpArg)
            ELSE IF x < 0 THEN 0
            ELSE Pow2(x)
    IN  Op[a]

(* np.exp of a non-negative argument: inf once the result leaves the range *)
FExp(a) ==
    LET Op[x \in Int] ==
            IF x = NaN THEN NaN
            ELSE IF x = NInf THEN 0
            ELSE IF x > MaxExpArg THEN PInf
            ELSE IF x < 0 THEN 0
            ELSE Pow2(x)
    IN  Op[a]

----------------------------------------------------------------------------
(* Physical constants, in the units of the model *)

(* h_e * c: wavelength = HC / energy *)
HC == 48

(* 2 * c, the numerator of Planck's law written per photon: 2c / lambda^4 *)
TwoC == 268435456

(* np.pi *)
PiQ == 3

(* e, the elementary charge, is the unit of charge *)
ElemCharge == 1

(* voltage_step = 0.001, two units of the voltage grid *)
voltage_step == 2

----------------------------------------------------------------------------
(* State *)

VARIABLES
    am15g_dat,      \* the bundled reference spectrum file am1.5g.dat
    caller_arrays,  \* the (energy, absorbance) arrays callers hand to slme
    qry,            \* the running efficiency queries: arguments and locals
    figure,         \* the current figure of matplotlib.pyplot, process wide
    pp_png,         \* the file 'pp.png' in the working directory
    warnings,       \* the warnings issued to the caller so far
    diel,           \* a DielTensor under construction or constructed
    rad,            \* an EMRadSpectrum under construction or constructed
    out             \* what the last property or matrix function call returned

vars == <<am15g_dat, caller_arrays, qry, figure, pp_png, warnings, diel, rad, out>>

----------------------------------------------------------------------------
(* The bundled reference spectrum am1.5g.dat: wavelength, irradiance *)

AM15G ==
    [wavelength |-> <<2, 3, 4, 6, 8, 12>>,
     irradiance |-> <<5760000, 7680000, 4320000, 960000, 360000, 80000>>]

(* np.loadtxt(solar_spectrum_data_file, usecols=[0, 1], unpack=True, skiprows=2) *)
solar_spectra_wavelength == am15g_dat.wavelength

solar_spectra_irradiance == am15g_dat.irradiance

NSolar == Len(solar_spectra_wavelength)

----------------------------------------------------------------------------
(* Library functions the queries call *)

(* scipy.integrate.simps(y, x): composite quadrature over the samples *)
RECURSIVE SimpsTwice(_, _, _)
SimpsTwice(y, x, i) ==
    IF i >= Len(x) THEN 0
    ELSE FAdd(FMul(FSub(x[i + 1], x[i]), FAdd(y[i], y[i + 1])),
              SimpsTwice(y, x, i + 1))

simps(y, x) == FDiv(SimpsTwice(y, x, 1), 2)

(* The insertion point of side='right': elements equal to v count too *)
searchsorted_right(a, v) == Cardinality({i \in 1..Len(a) : a[i] <= v})

(* np.searchsorted(a, v): the number of elements of a strictly below v *)
searchsorted(a, v) == Cardinality({i \in 1..Len(a) : a[i] < v})

(* np.interp(x, xp, fp): linear interpolation, clamped to the end values *)
interp(x, xp, fp) ==
    IF x <= xp[1] THEN fp[1]
    ELSE IF x >= xp[Len(xp)] THEN fp[Len(xp)]
    ELSE LET i == CHOOSE j \in 1..(Len(xp) - 1) : xp[j] <= x /\ x < xp[j + 1]
         IN  FAdd(fp[i], FDiv(FMul(FSub(fp[i + 1], fp[i]), x - xp[i]),
                              xp[i + 1] - xp[i]))

----------------------------------------------------------------------------
(* Quantities both queries compute from the reference spectrum *)

(* solar_spectra_irradiance * (solar_spectra_wavelength_meters / (h * c)) *)
solar_spectra_photon_flux ==
    [i \in 1..NSolar |->
        FDiv(FMul(solar_spectra_irradiance[i], solar_spectra_wavelength[i]), HC)]

(* simps(solar_spectra_irradiance, solar_spectra_wavelength) *)
power_in == simps(solar_spectra_irradiance, solar_spectra_wavelength)

(* Planck's law in wavelength form, as a photon flux, at one wavelength:   *)
(* (2hc^2 / lam^5) * 1 / (exp(hc / (lam k T)) - 1) * (lam / (hc))          *)
BlackbodyFlux(lam, temperature) ==
    FDiv(FDiv(TwoC, FMul(FMul(lam, lam), FMul(lam, lam))),
         FSub(FExp(FDiv(HC, FMul(lam, temperature))), 1))

blackbody_photon_flux(temperature) ==
    [i \in 1..NSolar |-> BlackbodyFlux(solar_spectra_wavelength[i], temperature)]

(* The diode equation and the power density, lines 699-705 and 862-868 *)
J(V, J_sc, J_0, temperature) ==
    FSub(J_sc, FMul(J_0, FSub(FExp(FDiv(FMul(ElemCharge, V), temperature)), 1)))

power(V, J_sc, J_0, temperature) == FMul(J(V, J_sc, J_0, temperature), V)

----------------------------------------------------------------------------
(* calculate_SQ, lines 649-692: truncation at the band gap and integration *)

(* bandgap_wavelength = h_e * c / bandgap_ev *)
bandgap_wavelength(bandgap_ev) == FDiv(HC, bandgap_ev)

bandgap_index(bandgap_ev) ==
    searchsorted(solar_spectra_wavelength, bandgap_wavelength(bandgap_ev))

bandgap_irradiance(bandgap_ev) ==
    interp(bandgap_wavelength(bandgap_ev), solar_spectra_wavelength,
           solar_spectra_photon_flux)

bandgap_blackbody(bandgap_ev, temperature) ==
    BlackbodyFlux(bandgap_wavelength(bandgap_ev), temperature)

integration_wavelength(bandgap_ev) ==
    SubSeq(solar_spectra_wavelength, 1, bandgap_index(bandgap_ev))
        \o <<bandgap_wavelength(bandgap_ev)>>

integration_solar_flux(bandgap_ev) ==
    SubSeq(solar_spectra_photon_flux, 1, bandgap_index(bandgap_ev))
        \o <<bandgap_irradiance(bandgap_ev)>>

integration_blackbody(bandgap_ev, temperature) ==
    SubSeq(blackbody_photon_flux(temperature), 1, bandgap_index(bandgap_ev))
        \o <<bandgap_blackbody(bandgap_ev, temperature)>>

(* J_0_r = e * np.pi * simps(integration_blackbody, integration_wavelength) *)
SQ_J_0_r(bandgap_ev, temperature) ==
    FMul(FMul(ElemCharge, PiQ),
         simps(integration_blackbody(bandgap_ev, temperature),
               integration_wavelength(bandgap_ev)))

(* J_sc = e * simps(integration_solar_flux * 1e9, integration_wavelength) *)
SQ_J_sc(bandgap_ev) ==
    FMul(ElemCharge,
         simps(integration_solar_flux(bandgap_ev), integration_wavelength(bandgap_ev)))

----------------------------------------------------------------------------
(* slme, lines 773-855 *)

(* The factor 100 that turns cm^-1 into m^-1, line 775 *)
CmFactor == 100

(* The offset 0.00000001 eV of line 815 lies below the energy resolution *)
EnergyShift == 0

(* One in the fixed-point unit of the dimensionless absorptivity, line 841 *)
AUnit == 256

(* A radiative fraction taken from the indirect gap alone *)
RadiativeFraction_of_indirect_gap(direct_gap, indirect_gap, temperature) ==
    LET x == FDiv(0 - indirect_gap, temperature)
    IN  IF x = NaN THEN [num |-> NaN, den |-> 1]
        ELSE IF x >= 0 THEN [num |-> FExp(x), den |-> 1]
        ELSE IF FExp(0 - x) = PInf THEN [num |-> 0, den |-> 1]
        ELSE [num |-> 1, den |-> FExp(0 - x)]

(* fr = np.exp(-delta / (k_e * temperature)), kept as the fraction num/den *)
RadiativeFraction(direct_gap, indirect_gap, temperature) ==
    LET delta == direct_gap - indirect_gap
        x == FDiv(0 - delta, temperature)
    IN  IF x = NaN THEN [num |-> NaN, den |-> 1]
        ELSE IF x >= 0 THEN [num |-> FExp(x), den |-> 1]
        ELSE IF FExp(0 - x) = PInf THEN [num |-> 0, den |-> 1]
        ELSE [num |-> 1, den |-> FExp(0 - x)]

(* J_0 = J_0_r / fr *)
DivideByFr(J_0_r, fr) == FDiv(FMul(J_0_r, fr.den), fr.num)

(* material_wavelength_for_absorbance_data, lines 814-815 *)
material_wavelength_for_absorbance_data(energy) ==
    [i \in 1..Len(energy) |-> FDiv(HC, energy[i] + EnergyShift)]

SeqMin(s) == CHOOSE v \in {s[i] : i \in 1..Len(s)} : \A i \in 1..Len(s) : v <= s[i]

SeqMax(s) == CHOOSE v \in {s[i] : i \in 1..Len(s)} : \A i \in 1..Len(s) : v >= s[i]

RECURSIVE ProdDiff(_, _, _, _)
ProdDiff(x, xs, j, m) ==
    IF m > Len(xs) THEN 1
    ELSE IF m = j THEN ProdDiff(x, xs, j, m + 1)
    ELSE (x - xs[m]) * ProdDiff(x, xs, j, m + 1)

RECURSIVE ProdPairs(_, _, _)
ProdPairs(xs, j, m) ==
    IF j >= Len(xs) THEN 1
    ELSE IF m > Len(xs) THEN ProdPairs(xs, j + 1, j + 2)
    ELSE Abs(xs[j] - xs[m]) * ProdPairs(xs, j, m + 1)

RECURSIVE CubicSum(_, _, _, _)
CubicSum(x, xs, ys, j) ==
    IF j > Len(xs) THEN 0
    ELSE ys[j] * ProdDiff(x, xs, j, 1)
               * (ProdPairs(xs, 1, 2) \div ProdDiff(xs[j], xs, j, 1))
         + CubicSum(x, xs, ys, j + 1)

(* The cubic through the four samples: the not-a-knot spline of interp1d *)
CubicSpline(x, xs, ys) == FDiv(CubicSum(x, xs, ys, 1), ProdPairs(xs, 1, 2))

(* interp1d(x, y, kind='cubic', fill_value=(y[0], y[-1]), bounds_error=False) *)
material_absorbance_data_function(x, wavelength, absorbance) ==
    IF x < SeqMin(wavelength) THEN absorbance[1]
    ELSE IF x > SeqMax(wavelength) THEN absorbance[Len(absorbance)]
    ELSE CubicSpline(x, wavelength, absorbance)

(* A cut-off loop that interpolates at every wavelength, whatever the flag *)
material_interpolated_absorbance_uncut(energy, absorbance, direct_gap, cut_off) ==
    [i \in 1..NSolar |->
        material_absorbance_data_function(
            solar_spectra_wavelength[i],
            material_wavelength_for_absorbance_data(energy), absorbance)]

(* material_interpolated_absorbance, lines 828-839 *)
material_interpolated_absorbance(energy, absorbance, direct_gap, cut_off) ==
    [i \in 1..NSolar |->
        IF solar_spectra_wavelength[i] < FDiv(HC, direct_gap) \/ cut_off = FALSE
        THEN material_absorbance_data_function(
                 solar_spectra_wavelength[i],
                 material_wavelength_for_absorbance_data(energy), absorbance)
        ELSE 0]

(* 1.0 - np.exp(-2.0 * absorbance * thickness), in units of 1/AUnit *)
Absorptivity(absorbance, thickness) ==
    LET Op[x \in Int] ==
            IF x >= 0 THEN FSub(AUnit, FDiv(AUnit, FExp(x)))
            ELSE FSub(AUnit, FMul(AUnit, FExp(0 - x)))
    IN  Op[FMul(FMul(2, absorbance), thickness)]

absorbed_by_wavelength(interpolated, thickness) ==
    [i \in 1..NSolar |-> Absorptivity(interpolated[i], thickness)]

Weighted(flux, absorbed) ==
    [i \in 1..NSolar |-> FDiv(FMul(flux[i], absorbed[i]), AUnit)]

(* J_0_r = e * np.pi * simps(blackbody_photon_flux * absorbed_by_wavelength, ...) *)
slme_J_0_r(absorbed, temperature) ==
    FMul(FMul(ElemCharge, PiQ),
         simps(Weighted(blackbody_photon_flux(temperature), absorbed),
               solar_spectra_wavelength))

(* J_sc = e * simps(solar_spectra_photon_flux * absorbed_by_wavelength, ...) *)
slme_J_sc(absorbed) ==
    FMul(ElemCharge,
         simps(Weighted(solar_spectra_photon_flux, absorbed), solar_spectra_wavelength))

----------------------------------------------------------------------------
(* Arguments of the efficiency queries *)

(* The arrays callers pass as material_energy_for_absorbance_data and      *)
(* material_absorbance_data: energies ascending, four samples each         *)
CallerArrays ==
    <<[energy |-> <<4, 8, 16, 24>>, absorbance |-> <<0, 1, 3, 4>>],
      [energy |-> <<8, 12, 16, 24>>, absorbance |-> <<0, 2, 3, 4>>],
      [energy |-> <<6, 8, 12, 16>>, absorbance |-> <<1, 2, 3, 4>>]>>

BandgapSet == {3, 5, 8, 9, 16, 24, 48}

(* The last one lies so far above every indirect gap that fr underflows *)
DirectGapSet == {8, 12, 16, 48}

IndirectGapSet == {8, 16, 24}

TemperatureSet == 0..MaxTemp

ThicknessSet == 1..MaxThickness

One == [num |-> 1, den |-> 1]

(* fr of calculate_SQ: the default 1, or one half *)
SQFrSet == {One, [num |-> 1, den |-> 2]}

Locals ==
    [pc |-> "called", fr |-> One, material_interpolated_absorbance |-> <<>>,
     J_0_r |-> 0, J_0 |-> 0, J_sc |-> 0, test_voltage |-> 0, max_power |-> 0,
     efficiency |-> [num |-> 0, den |-> 0], error |-> "", rendered |-> {},
     integration_wavelength |-> <<>>, integration_solar_flux |-> <<>>,
     integration_blackbody |-> <<>>]

SQCalls ==
    {[fn |-> "calculate_SQ", bandgap_ev |-> g, temperature |-> t, fr_arg |-> f,
      plot_current_voltage |-> p, data |-> 1, material_direct_allowed_gap |-> 0,
      material_indirect_gap |-> 0, thickness |-> 0,
      absorbance_in_inverse_centimeters |-> FALSE,
      cut_off_absorbance_below_direct_allowed_gap |-> FALSE] @@ Locals :
        g \in BandgapSet, t \in TemperatureSet, f \in SQFrSet, p \in BOOLEAN}

SlmeCalls ==
    {[fn |-> "slme", bandgap_ev |-> 0, temperature |-> t, fr_arg |-> One,
      plot_current_voltage |-> p, data |-> d, material_direct_allowed_gap |-> gd,
      material_indirect_gap |-> gi, thickness |-> th,
      absorbance_in_inverse_centimeters |-> cm,
      cut_off_absorbance_below_direct_allowed_gap |-> co] @@ Locals :
        t \in TemperatureSet, p \in BOOLEAN, d \in 1..Len(CallerArrays),
        gd \in DirectGapSet, gi \in IndirectGapSet, th \in ThicknessSet,
        cm \in BOOLEAN, co \in BOOLEAN}

Calls == SQCalls \cup SlmeCalls

(* A query that has not been called yet *)
NotCalled ==
    [fn |-> "none", bandgap_ev |-> 0, temperature |-> 0, fr_arg |-> One,
     plot_current_voltage |-> FALSE, data |-> 1, material_direct_allowed_gap |-> 0,
     material_indirect_gap |-> 0, thickness |-> 0,
     absorbance_in_inverse_centimeters |-> FALSE,
     cut_off_absorbance_below_direct_allowed_gap |-> FALSE]
    @@ [Locals EXCEPT !.pc = "idle"]

NoFile == [by |-> 0, curves |-> {}]

----------------------------------------------------------------------------
(* The efficiency queries, step by step *)

(* The caller invokes calculate_SQ or slme with its arguments *)
call(q) ==
    /\ qry[q].pc = "idle"
    /\ \E c \in Calls : qry' = [qry EXCEPT ![q] = c]
    /\ UNCHANGED <<am15g_dat, caller_arrays, figure, pp_png, warnings, diel, rad, out>>

Raise(q, exc) == qry' = [qry EXCEPT ![q].pc = "raised", ![q].error = exc]

(* calculate_SQ, lines 606-692 *)
calculate_SQ_integrate(q) ==
    /\ qry[q].pc = "called"
    /\ qry[q].fn = "calculate_SQ"
    /\ IF qry[q].temperature = 0
       THEN Raise(q, "ZeroDivisionError")
       ELSE LET r == SQ_J_0_r(qry[q].bandgap_ev, qry[q].temperature)
            IN  qry' = [qry EXCEPT ![q].pc = "climb",
                                   ![q].fr = qry[q].fr_arg,
                                   ![q].integration_wavelength =
                                       integration_wavelength(qry[q].bandgap_ev),
                                   ![q].integration_solar_flux =
                                       integration_solar_flux(qry[q].bandgap_ev),
                                   ![q].integration_blackbody =
                                       integration_blackbody(qry[q].bandgap_ev,
                                                             qry[q].temperature),
                                   ![q].J_0_r = r,
                                   ![q].J_0 = DivideByFr(r, qry[q].fr_arg),
                                   ![q].J_sc = SQ_J_sc(qry[q].bandgap_ev),
                                   ![q].test_voltage = 0]
    /\ UNCHANGED <<am15g_dat, caller_arrays, figure, pp_png, warnings, diel, rad, out>>

(* material_absorbance_data = material_absorbance_data * 100, line 775:    *)
(* a new array bound to the local name                                     *)
ScaledAbsorbance(absorbance, in_cm) ==
    IF in_cm THEN [i \in 1..Len(absorbance) |-> FMul(absorbance[i], CmFactor)]
    ELSE absorbance

(* slme, lines 765-855 *)
slme_integrate(q) ==
    /\ qry[q].pc = "called"
    /\ qry[q].fn = "slme"
    /\ IF qry[q].temperature = 0
       THEN Raise(q, "ZeroDivisionError")
       ELSE LET a == qry[q]
                absorbance == ScaledAbsorbance(caller_arrays[a.data].absorbance,
                                               a.absorbance_in_inverse_centimeters)
                fr == RadiativeFraction(a.material_direct_allowed_gap,
                                        a.material_indirect_gap, a.temperature)
                mia == material_interpolated_absorbance(
                           caller_arrays[a.data].energy, absorbance,
                           a.material_direct_allowed_gap,
                           a.cut_off_absorbance_below_direct_allowed_gap)
                absorbed == absorbed_by_wavelength(mia, a.thickness)
                r == slme_J_0_r(absorbed, a.temperature)
            IN  qry' = [qry EXCEPT ![q].pc = "climb",
                                   ![q].fr = fr,
                                   ![q].material_interpolated_absorbance = mia,
                                   ![q].J_0_r = r,
                                   ![q].J_0 = DivideByFr(r, fr),
                                   ![q].J_sc = slme_J_sc(absorbed),
                                   ![q].test_voltage = 0]
    /\ UNCHANGED <<am15g_dat, caller_arrays, figure, pp_png, warnings, diel, rad, out>>

(* power(V) with the locals of query q *)
power_of(q, V) == power(V, qry[q].J_sc, qry[q].J_0, qry[q].temperature)

(* A loop test that also accepts a step to an equal power *)
Climbing_on_tie(q) ==
    FLe(power_of(q, qry[q].test_voltage),
        power_of(q, qry[q].test_voltage + voltage_step))

(* while power(test_voltage + voltage_step) > power(test_voltage) *)
Climbing(q) ==
    FGt(power_of(q, qry[q].test_voltage + voltage_step),
        power_of(q, qry[q].test_voltage))

(* A loop body that advances by two steps at once *)
climb_step_twice(q) ==
    /\ qry[q].pc = "climb"
    /\ Climbing(q)
    /\ qry' = [qry EXCEPT ![q].test_voltage = qry[q].test_voltage + 2 * voltage_step]
    /\ UNCHANGED <<am15g_dat, caller_arrays, figure, pp_png, warnings, diel, rad, out>>

(* test_voltage += voltage_step, lines 712 and 875 *)
climb_step(q) ==
    /\ qry[q].pc = "climb"
    /\ Climbing(q)
    /\ qry' = [qry EXCEPT ![q].test_voltage = qry[q].test_voltage + voltage_step]
    /\ UNCHANGED <<am15g_dat, caller_arrays, figure, pp_png, warnings, diel, rad, out>>

(* numpy reports an overflowing np.exp as a RuntimeWarning *)
ExpOverflows(q, V) == FDiv(FMul(ElemCharge, V), qry[q].temperature) > MaxExpArg

(* The loop test fails; max_power = power(test_voltage);                   *)
(* efficiency = max_power / power_in                                       *)
climb_stop(q) ==
    /\ qry[q].pc = "climb"
    /\ ~Climbing(q)
    /\ LET p == power_of(q, qry[q].test_voltage)
       IN  qry' = [qry EXCEPT ![q].max_power = p,
                              ![q].efficiency = [num |-> p, den |-> power_in],
                              ![q].pc = IF qry[q].plot_current_voltage
                                        THEN "plot_J" ELSE "returned"]
    /\ warnings' = IF ExpOverflows(q, qry[q].test_voltage + voltage_step)
                   THEN warnings \cup {[by |-> q, category |-> "RuntimeWarning"]}
                   ELSE warnings
    /\ UNCHANGED <<am15g_dat, caller_arrays, figure, pp_png, diel, rad, out>>

(* plt.plot(V, J(V)), lines 724 and 887 *)
plot_J(q) ==
    /\ qry[q].pc = "plot_J"
    /\ figure' = figure \cup {[by |-> q, curve |-> "J"]}
    /\ qry' = [qry EXCEPT ![q].pc = "plot_power"]
    /\ UNCHANGED <<am15g_dat, caller_arrays, pp_png, warnings, diel, rad, out>>

(* plt.plot(V, power(V), linestyle='--'), lines 725 and 888 *)
plot_power(q) ==
    /\ qry[q].pc = "plot_power"
    /\ figure' = figure \cup {[by |-> q, curve |-> "power"]}
    /\ qry' = [qry EXCEPT ![q].pc = IF qry[q].fn = "slme" THEN "savefig" ELSE "show"]
    /\ UNCHANGED <<am15g_dat, caller_arrays, pp_png, warnings, diel, rad, out>>

(* plt.show(); print(max_power), lines 726-727 *)
show(q) ==
    /\ qry[q].pc = "show"
    /\ qry' = [qry EXCEPT ![q].pc = "returned", ![q].rendered = figure]
    /\ figure' = {}
    /\ UNCHANGED <<am15g_dat, caller_arrays, pp_png, warnings, diel, rad, out>>

(* plt.savefig('pp.png'), line 889 *)
savefig(q) ==
    /\ qry[q].pc = "savefig"
    /\ pp_png' = [by |-> q, curves |-> figure]
    /\ qry' = [qry EXCEPT ![q].pc = "close", ![q].rendered = figure]
    /\ UNCHANGED <<am15g_dat, caller_arrays, figure, warnings, diel, rad, out>>

(* plt.close(), line 890 *)
close(q) ==
    /\ qry[q].pc = "close"
    /\ figure' = {}
    /\ qry' = [qry EXCEPT ![q].pc = "returned"]
    /\ UNCHANGED <<am15g_dat, caller_arrays, pp_png, warnings, diel, rad, out>>

QueryStep(q) ==
    \/ calculate_SQ_integrate(q)
    \/ slme_integrate(q)
    \/ climb_step(q)
    \/ climb_stop(q)
    \/ plot_J(q)
    \/ plot_power(q)
    \/ show(q)
    \/ savefig(q)
    \/ close(q)

----------------------------------------------------------------------------
(* One query at a time *)

Init ==
    /\ am15g_dat = AM15G
    /\ caller_arrays = CallerArrays
    /\ qry = [q \in {1} |-> NotCalled]
    /\ figure = {}
    /\ pp_png = NoFile
    /\ warnings = {}
    /\ diel = [state |-> "none"]
    /\ rad = [state |-> "none"]
    /\ out = [fn |-> "none"]

Next == \E q \in {1} : call(q) \/ QueryStep(q)

Spec == Init /\ [][Next]_vars

(* The interpreter keeps executing the while loop of a query that is in it *)
FairSpec == Spec /\ WF_vars(climb_step(1) \/ climb_stop(1))

----------------------------------------------------------------------------
(* Concurrent queries: the caller runs two queries in two threads *)

(* The calls of the two threads: both functions, with and without the plot *)
ConcCalls ==
    {c \in Calls :
        /\ c.temperature = 1
        /\ c.fr_arg = One
        /\ c.bandgap_ev \in {0, 8, 16}
        /\ c.data = 1
        /\ c.material_direct_allowed_gap \in {0, 12}
        /\ c.material_indirect_gap \in {0, 8}
        /\ c.thickness \in {0, 1}
        /\ ~c.absorbance_in_inverse_centimeters
        /\ (c.fn = "slme" => c.cut_off_absorbance_below_direct_allowed_gap)}

call_conc(q) ==
    /\ qry[q].pc = "idle"
    /\ \E c \in ConcCalls : qry' = [qry EXCEPT ![q] = c]
    /\ UNCHANGED <<am15g_dat, caller_arrays, figure, pp_png, warnings, diel, rad, out>>

InitConc ==
    /\ am15g_dat = AM15G
    /\ caller_arrays = CallerArrays
    /\ qry = [q \in {1, 2} |-> NotCalled]
    /\ figure = {}
    /\ pp_png = NoFile
    /\ warnings = {}
    /\ diel = [state |-> "none"]
    /\ rad = [state |-> "none"]
    /\ out = [fn |-> "none"]

NextConc == \E q \in {1, 2} : call_conc(q) \/ QueryStep(q)

SpecConc == InitConc /\ [][NextConc]_vars

----------------------------------------------------------------------------
(* DielTensor, lines 38-86 *)

(* A to_matrix that reads its last two arguments as xz, yz *)
to_matrix_xz_yz(xx, yy, zz, xy, yz, xz) ==
    <<<<xx, xy, yz>>, <<xy, yy, xz>>, <<yz, xz, zz>>>>

(* to_matrix(xx, yy, zz, xy, yz, xz), lines 480-495 *)
to_matrix(xx, yy, zz, xy, yz, xz) ==
    <<<<xx, xy, xz>>, <<xy, yy, yz>>, <<xz, yz, zz>>>>

Min(a, b) == IF a <= b THEN a ELSE b

(* The data callers construct a DielTensor from: a tuple or a list of      *)
(* energies, lists of [xx, yy, zz, xy, yz, xz] components, tensor arrays   *)
EnergyGrids == {<<1, 2>>, <<1, 2, 3>>}

Components == {<<1, 2, 3, 4, 5, 6>>, <<7, 8, 9, 0, 1, 2>>}

ComponentLists == UNION {[1..n -> Components] : n \in 2..3}

TensorArrays ==
    {[i \in 1..n |-> [re |-> to_matrix(1, 2, 3, 4, 5, 6),
                      im |-> to_matrix(i, 0, 0, 0, 0, 0)]] : n \in 2..3}

ContainerTypes == {"tuple", "list"}

DielectricData ==
    {[type |-> t, items |-> <<>>] : t \in ContainerTypes}
    \cup {[type |-> t, items |-> <<en>>] : t \in ContainerTypes, en \in EnergyGrids}
    \cup {[type |-> t, items |-> <<en, ta>>] :
            t \in ContainerTypes, en \in EnergyGrids, ta \in TensorArrays}
    \cup {[type |-> t, items |-> <<en, re, im>>] :
            t \in ContainerTypes, en \in EnergyGrids,
            re \in ComponentLists, im \in ComponentLists}
    \cup {[type |-> t, items |-> <<en, re, im, im>>] :
            t \in ContainerTypes, en \in EnergyGrids,
            re \in ComponentLists, im \in {<<c, c>> : c \in Components}}

(* A parser that takes every container of three or more elements *)
parse_dielectric_data_three_or_more(dielectric_data) ==
    IF dielectric_data.type = "tuple" /\ Len(dielectric_data.items) >= 3
    THEN LET real == dielectric_data.items[2]
             imag == dielectric_data.items[3]
         IN  [raised |-> FALSE,
              energies |-> dielectric_data.items[1],
              dielectric_tensor |->
                  [i \in 1..Min(Len(real), Len(imag)) |->
                      [re |-> to_matrix(real[i][1], real[i][2], real[i][3],
                                        real[i][4], real[i][5], real[i][6]),
                       im |-> to_matrix(imag[i][1], imag[i][2], imag[i][3],
                                        imag[i][4], imag[i][5], imag[i][6])]]]
    ELSE IF dielectric_data.type = "tuple" /\ Len(dielectric_data.items) = 2
    THEN [raised |-> FALSE,
          energies |-> dielectric_data.items[1],
          dielectric_tensor |-> dielectric_data.items[2]]
    ELSE [raised |-> TRUE, error |-> "ImportError"]

(* DielTensor.parse_dielectric_data, lines 57-86; zip stops at the shorter *)
(* of the two lists                                                        *)
parse_dielectric_data(dielectric_data) ==
    IF dielectric_data.type = "tuple" /\ Len(dielectric_data.items) = 3
    THEN LET real == dielectric_data.items[2]
             imag == dielectric_data.items[3]
         IN  [raised |-> FALSE,
              energies |-> dielectric_data.items[1],
              dielectric_tensor |->
                  [i \in 1..Min(Len(real), Len(imag)) |->
                      [re |-> to_matrix(real[i][1], real[i][2], real[i][3],
                                        real[i][4], real[i][5], real[i][6]),
                       im |-> to_matrix(imag[i][1], imag[i][2], imag[i][3],
                                        imag[i][4], imag[i][5], imag[i][6])]]]
    ELSE IF dielectric_data.type = "tuple" /\ Len(dielectric_data.items) = 2
    THEN [raised |-> FALSE,
          energies |-> dielectric_data.items[1],
          dielectric_tensor |-> dielectric_data.items[2]]
    ELSE [raised |-> TRUE, error |-> "ImportError"]

(* DielTensor.__init__, lines 44-55 *)
DielTensor_init(dielectric_data) ==
    /\ diel.state = "none"
    /\ LET parsed == parse_dielectric_data(dielectric_data)
       IN  diel' = IF parsed.raised
                   THEN [state |-> "raised", error |-> parsed.error,
                         dielectric_data |-> dielectric_data]
                   ELSE [state |-> "constructed",
                         dielectric_data |-> dielectric_data,
                         energies |-> parsed.energies,
                         dielectric_tensor |-> parsed.dielectric_tensor]
    /\ UNCHANGED <<am15g_dat, caller_arrays, qry, figure, pp_png, warnings, rad, out>>

(* hbar / e * c of line 144: h * c / (2 * pi) in the units of the model *)
HBarC == 8

Trace(matrix) == matrix[1][1] + matrix[2][2] + matrix[3][3]

(* np.mean(np.linalg.eigvals(tensor)): the three eigenvalues of a matrix   *)
(* add up to its trace, in the real and in the imaginary part              *)
MeanOfEigvals(tensor) ==
    [re |-> FDiv(Trace(tensor.re), 3), im |-> FDiv(Trace(tensor.im), 3)]

ISqrt(n) == CHOOSE r \in 0..n : r * r <= n /\ (r + 1) * (r + 1) > n

(* cmath.sqrt(v).imag: the principal root, its imaginary part has the sign *)
(* of the imaginary part of v                                              *)
SqrtImag(v) ==
    LET modulus == ISqrt(v.re * v.re + v.im * v.im)
        k == ISqrt((modulus - v.re) \div 2)
    IN  IF v.im < 0 THEN 0 - k ELSE k

(* numpy broadcasting of two one-dimensional arrays in E * k *)
Broadcasts(a, b) == Len(a) = Len(b) \/ Len(a) = 1 \/ Len(b) = 1

Bc(a, i) == IF Len(a) = 1 THEN a[1] ELSE a[i]

(* DielTensor.energies, lines 88-97 *)
energies ==
    /\ diel.state = "constructed"
    /\ out' = [fn |-> "energies", raised |-> FALSE, value |-> diel.energies]
    /\ UNCHANGED <<am15g_dat, caller_arrays, qry, figure, pp_png, warnings, diel, rad>>

(* DielTensor.dielectric_tensor, lines 99-109 *)
dielectric_tensor ==
    /\ diel.state = "constructed"
    /\ out' = [fn |-> "dielectric_tensor", raised |-> FALSE,
               value |-> diel.dielectric_tensor]
    /\ UNCHANGED <<am15g_dat, caller_arrays, qry, figure, pp_png, warnings, diel, rad>>

(* DielTensor.dielectric_function, lines 111-122 *)
dielectric_function ==
    /\ diel.state = "constructed"
    /\ out' = [fn |-> "dielectric_function", raised |-> FALSE,
               value |-> [i \in 1..Len(diel.dielectric_tensor) |->
                             MeanOfEigvals(diel.dielectric_tensor[i])]]
    /\ UNCHANGED <<am15g_dat, caller_arrays, qry, figure, pp_png, warnings, diel, rad>>

(* DielTensor.absorption_coefficient, lines 124-144:                       *)
(* 2.0 * E * k / (constants.hbar / constants.e * constants.c); the product *)
(* of two arrays of different lengths raises ValueError                    *)
absorption_coefficient ==
    /\ diel.state = "constructed"
    /\ LET E == diel.energies
           k == [i \in 1..Len(diel.dielectric_tensor) |->
                    SqrtImag(MeanOfEigvals(diel.dielectric_tensor[i]))]
           N == IF Len(E) >= Len(k) THEN Len(E) ELSE Len(k)
       IN  out' = IF Broadcasts(E, k)
                  THEN [fn |-> "absorption_coefficient", raised |-> FALSE,
                        value |-> [i \in 1..N |->
                                      FDiv(FMul(FMul(2, Bc(E, i)), Bc(k, i)), HBarC)]]
                  ELSE [fn |-> "absorption_coefficient", raised |-> TRUE,
                        error |-> "ValueError"]
    /\ UNCHANGED <<am15g_dat, caller_arrays, qry, figure, pp_png, warnings, diel, rad>>

NextDiel ==
    \/ \E d \in DielectricData : DielTensor_init(d)
    \/ energies
    \/ dielectric_tensor
    \/ dielectric_function
    \/ absorption_coefficient

SpecDiel == Init /\ [][NextDiel]_vars

----------------------------------------------------------------------------
(* to_matrix and matrix_eigvals, lines 480-495 and 536-545 *)

ComponentValues == {0 - 1, 2, 5}

OffDiagonalValues == {0, 1}

Det2(a, b, c, d) == a * d - b * c

(* det(matrix - lam * I), the characteristic polynomial *)
CharPoly(M, lam) ==
    (M[1][1] - lam) * Det2(M[2][2] - lam, M[2][3], M[3][2], M[3][3] - lam)
    - M[1][2] * Det2(M[2][1], M[2][3], M[3][1], M[3][3] - lam)
    + M[1][3] * Det2(M[2][1], M[2][2] - lam, M[3][1], M[3][2])

(* The sum of the principal 2x2 minors *)
Minors(M) ==
    Det2(M[1][1], M[1][2], M[2][1], M[2][2])
    + Det2(M[1][1], M[1][3], M[3][1], M[3][3])
    + Det2(M[2][2], M[2][3], M[3][2], M[3][3])

(* How often lam is a root of the characteristic polynomial *)
Multiplicity(M, lam) ==
    IF CharPoly(M, lam) # 0 THEN 0
    ELSE IF 3 * lam * lam - 2 * Trace(M) * lam + Minors(M) # 0 THEN 1
    ELSE IF 6 * lam - 2 * Trace(M) # 0 THEN 2
    ELSE 3

(* All eigenvalues lie within the largest absolute row sum of zero *)
EigBound(M) ==
    Abs(M[1][1]) + Abs(M[1][2]) + Abs(M[1][3]) + Abs(M[2][1]) + Abs(M[2][2])
    + Abs(M[2][3]) + Abs(M[3][1]) + Abs(M[3][2]) + Abs(M[3][3])

RECURSIVE EigvalsFrom(_, _, _)
EigvalsFrom(M, lam, last) ==
    IF lam > last THEN <<>>
    ELSE [i \in 1..Multiplicity(M, lam) |-> lam] \o EigvalsFrom(M, lam + 1, last)

(* np.linalg.eig(matrix)[0]: the roots of the characteristic polynomial,   *)
(* each as often as its multiplicity; the model lists the integer roots,   *)
(* in ascending order                                                      *)
matrix_eigvals(matrix) == EigvalsFrom(matrix, 0 - EigBound(matrix), EigBound(matrix))

(* The caller invokes to_matrix(xx, yy, zz, xy, yz, xz) *)
to_matrix_call(xx, yy, zz, xy, yz, xz) ==
    /\ out' = [fn |-> "to_matrix", raised |-> FALSE,
               args |-> [xx |-> xx, yy |-> yy, zz |-> zz,
                         xy |-> xy, yz |-> yz, xz |-> xz],
               value |-> to_matrix(xx, yy, zz, xy, yz, xz)]
    /\ UNCHANGED <<am15g_dat, caller_arrays, qry, figure, pp_png, warnings, diel, rad>>

(* The caller invokes matrix_eigvals on the matrix to_matrix returned; the *)
(* model follows the call when all three eigenvalues are integers          *)
matrix_eigvals_call ==
    /\ out.fn = "to_matrix"
    /\ Len(matrix_eigvals(out.value)) = 3
    /\ out' = [fn |-> "matrix_eigvals", raised |-> FALSE, args |-> out.args,
               matrix |-> out.value, value |-> matrix_eigvals(out.value)]
    /\ UNCHANGED <<am15g_dat, caller_arrays, qry, figure, pp_png, warnings, diel, rad>>

NextMat ==
    \/ \E xx \in ComponentValues, yy \in ComponentValues, zz \in ComponentValues,
          xy \in OffDiagonalValues, yz \in OffDiagonalValues,
          xz \in OffDiagonalValues :
           to_matrix_call(xx, yy, zz, xy, yz, xz)
    \/ matrix_eigvals_call

SpecMat == Init /\ [][NextMat]_vars

----------------------------------------------------------------------------
(* EMRadSpectrum.from_data, lines 226-261 *)

(* An array left in its order *)
flip_not(a) == a

(* np.flip *)
flip(a) == [i \in 1..Len(a) |-> a[Len(a) + 1 - i]]

GridValues == {2, 3, 4, 6, 8, 12}

(* Ascending grids of two or three points, and spectra on them *)
Grids ==
    UNION {{g \in [1..n -> GridValues] : \A i \in 1..(n - 1) : g[i] < g[i + 1]} :
            n \in 2..3}

Spectra(grid) ==
    {[i \in 1..Len(grid) |-> 576 * i], [i \in 1..Len(grid) |-> 576 * grid[i]]}

SpectrumData == UNION {{<<g, sp>> : sp \in Spectra(g)} : g \in Grids}

VariableSet == {"energy", "wavelength", "frequency"}

SpectrumUnitsSet == {"flux", "power", "irradiance"}

(* A from_data that takes the spectrum as a flux whatever the units say *)
from_data_flux_by_default(data, variable, spectrum_units) ==
    IF variable \notin {"energy", "wavelength"}
    THEN [raised |-> TRUE, error |-> "NotImplementedError"]
    ELSE LET energy ==
                 IF variable = "energy" THEN data[1]
                 ELSE flip([i \in 1..Len(data[1]) |-> FDiv(HC, data[1][i])])
             spectrum ==
                 IF variable = "energy" THEN data[2]
                 ELSE [i \in 1..Len(data[2]) |->
                          FDiv(FMul(flip(data[2])[i], HC),
                               FMul(energy[i], energy[i]))]
         IN  IF spectrum_units = "power"
             THEN [raised |-> FALSE, energy |-> energy,
                   photon_flux |-> [i \in 1..Len(spectrum) |->
                                       FDiv(spectrum[i], FMul(ElemCharge, energy[i]))]]
             ELSE [raised |-> FALSE, energy |-> energy, photon_flux |-> spectrum]

from_data(data, variable, spectrum_units) ==
    IF variable \notin {"energy", "wavelength"}
    THEN [raised |-> TRUE, error |-> "NotImplementedError"]
    ELSE LET energy ==
                 IF variable = "energy" THEN data[1]
                 ELSE flip([i \in 1..Len(data[1]) |-> FDiv(HC, data[1][i])])
             spectrum ==
                 IF variable = "energy" THEN data[2]
                 ELSE [i \in 1..Len(data[2]) |->
                          FDiv(FMul(flip(data[2])[i], HC),
                               FMul(energy[i], energy[i]))]
         IN  IF spectrum_units = "flux"
             THEN [raised |-> FALSE, energy |-> energy, photon_flux |-> spectrum]
             ELSE IF spectrum_units = "power"
             THEN [raised |-> FALSE, energy |-> energy,
                   photon_flux |-> [i \in 1..Len(spectrum) |->
                                       FDiv(spectrum[i], FMul(ElemCharge, energy[i]))]]
             ELSE [raised |-> TRUE, error |-> "NotImplementedError"]

(* The caller invokes EMRadSpectrum.from_data; cls(energy, photon_flux)    *)
(* stores the two arrays, lines 201-211                                    *)
from_data_call(data, variable, spectrum_units) ==
    /\ rad.state = "none"
    /\ LET made == from_data(data, variable, spectrum_units)
       IN  rad' = IF made.raised
                  THEN [state |-> "raised", error |-> made.error, data |-> data,
                        variable |-> variable, spectrum_units |-> spectrum_units]
                  ELSE [state |-> "constructed", data |-> data,
                        variable |-> variable, spectrum_units |-> spectrum_units,
                        energy |-> made.energy, photon_flux |-> made.photon_flux,
                        material_wavelength_for_absorbance_data |-> <<>>]
    /\ UNCHANGED <<am15g_dat, caller_arrays, qry, figure, pp_png, warnings, diel, out>>

(* The energy grid of the spectrum is turned into wavelengths the way slme *)
(* turns an energy grid into wavelengths, lines 813-815                    *)
energy_to_wavelength ==
    /\ rad.state = "constructed"
    /\ rad.material_wavelength_for_absorbance_data = <<>>
    /\ rad' = [rad EXCEPT !.material_wavelength_for_absorbance_data =
                              material_wavelength_for_absorbance_data(rad.energy)]
    /\ UNCHANGED <<am15g_dat, caller_arrays, qry, figure, pp_png, warnings, diel, out>>

NextRad ==
    \/ \E d \in SpectrumData, v \in VariableSet, u \in SpectrumUnitsSet :
           from_data_call(d, v, u)
    \/ energy_to_wavelength

SpecRad == Init /\ [][NextRad]_vars

----------------------------------------------------------------------------
(* The voltage hill-climb *)

(* The query has left the while loop and holds max_power *)
Searched(q) ==
    qry[q].pc \in {"plot_J", "plot_power", "show", "savefig", "close", "returned"}

SearchEnded(q) == Searched(q) \/ qry[q].pc = "raised"

(* The voltage from which np.exp(e * V / (k * T)) is inf, plus one step *)
ClimbBound(q) == (MaxExpArg + 1) * qry[q].temperature + voltage_step

(* C1: for every J_sc, J_0 and temperature the hill-climb takes a bounded  *)
(* number of steps (the test voltage never passes the voltage at which the *)
(* exponential overflows) and a search that has begun ends, with a maximum *)
(* power or with an error; it never loops unboundedly.                     *)
C1_SearchTerminates ==
    /\ [](\A q \in DOMAIN qry : qry[q].test_voltage <= ClimbBound(q))
    /\ (qry[1].pc = "climb") ~> SearchEnded(1)

(* A strictly increasing power curve (J_0 = 0, J_sc > 0) has been climbed  *)
(* and the search has returned                                             *)
C1_Witness ==
    \E q \in DOMAIN qry :
        /\ qry[q].pc = "returned"
        /\ qry[q].J_0 = 0
        /\ qry[q].J_sc > 0
        /\ qry[q].test_voltage >= 2 * voltage_step

(* The voltages the climb has left behind *)
Accepted(q) == {v \in 0..(qry[q].test_voltage - 1) : v % voltage_step = 0}

(* C2: the climb starts at V = 0 and moves in steps of voltage_step; every *)
(* step it took went to a strictly larger power; once it has stopped, the  *)
(* next step would not increase the power (a tie stops it) and max_power   *)
(* is the power at the last accepted voltage.                              *)
C2_StrictGreedyClimb ==
    \A q \in DOMAIN qry :
        /\ qry[q].test_voltage >= 0
        /\ qry[q].test_voltage % voltage_step = 0
        /\ \A v \in Accepted(q) :
               FGt(power_of(q, v + voltage_step), power_of(q, v))
        /\ Searched(q) =>
               /\ ~FGt(power_of(q, qry[q].test_voltage + voltage_step),
                       power_of(q, qry[q].test_voltage))
               /\ qry[q].max_power = power_of(q, qry[q].test_voltage)

(* A climb of several steps has stopped at a positive maximum power *)
C2_Witness ==
    \E q \in DOMAIN qry :
        /\ Searched(q)
        /\ qry[q].test_voltage >= 2 * voltage_step
        /\ qry[q].max_power > 0

(* The power curve of query q on the full voltage grid, one unit apart *)
VoltageHorizon == (MaxExpArg + 2) * MaxTemp + 2 * voltage_step

(* Strictly increasing up to m, non-increasing from m on *)
UnimodalAt(q, m) ==
    /\ \A v \in 0..(m - 1) : FGt(power_of(q, v + 1), power_of(q, v))
    /\ \A v \in m..VoltageHorizon : FLe(power_of(q, v + 1), power_of(q, v))

(* C3: when the power curve is unimodal with its maximum at voltage m, the *)
(* voltage the climb returns is within one voltage step of m.              *)
C3_WithinOneStep ==
    \A q \in DOMAIN qry :
        Searched(q) =>
            \A m \in 0..VoltageHorizon :
                UnimodalAt(q, m) => Abs(qry[q].test_voltage - m) <= voltage_step

(* A unimodal curve whose maximum lies between two climb voltages *)
C3_Witness ==
    \E q \in DOMAIN qry :
        /\ Searched(q)
        /\ \E m \in 1..VoltageHorizon :
               /\ UnimodalAt(q, m)
               /\ m % voltage_step # 0
               /\ qry[q].test_voltage # m

----------------------------------------------------------------------------
(* The cut-off of slme *)

Integrated(q) == qry[q].pc \notin {"idle", "called", "raised"}

(* The value the interpolating function gives at solar grid point i *)
InterpolatedAt(q, i) ==
    material_absorbance_data_function(
        solar_spectra_wavelength[i],
        material_wavelength_for_absorbance_data(caller_arrays[qry[q].data].energy),
        ScaledAbsorbance(caller_arrays[qry[q].data].absorbance,
                         qry[q].absorbance_in_inverse_centimeters))

(* C4: in slme, with the cut-off flag set, the absorption used is zero at  *)
(* every solar wavelength longer than h*c/E_direct; with the flag cleared, *)
(* every solar wavelength keeps its interpolated absorption.               *)
C4_CutOffBelowDirectGap ==
    \A q \in DOMAIN qry :
        (qry[q].fn = "slme" /\ Integrated(q)) =>
            \A i \in 1..NSolar :
                /\ (/\ qry[q].cut_off_absorbance_below_direct_allowed_gap
                    /\ solar_spectra_wavelength[i] * qry[q].material_direct_allowed_gap > HC)
                      => qry[q].material_interpolated_absorbance[i] = 0
                /\ ~qry[q].cut_off_absorbance_below_direct_allowed_gap
                      => qry[q].material_interpolated_absorbance[i] = InterpolatedAt(q, i)

(* A solar wavelength beyond the gap where the data absorb, cut to zero *)
C4_Witness ==
    \E q \in DOMAIN qry : \E i \in 1..NSolar :
        /\ qry[q].fn = "slme"
        /\ Integrated(q)
        /\ qry[q].cut_off_absorbance_below_direct_allowed_gap
        /\ solar_spectra_wavelength[i] * qry[q].material_direct_allowed_gap > HC
        /\ InterpolatedAt(q, i) > 0
        /\ qry[q].material_interpolated_absorbance[i] = 0

----------------------------------------------------------------------------
(* Construction of a DielTensor *)

(* The two layouts the constructor documents: a tuple of three elements    *)
(* (energies, real parts, imaginary parts), a tuple of two (energies,      *)
(* tensor array)                                                           *)
ThreeElementLayout(d) == d.type = "tuple" /\ Len(d.items) = 3

TwoElementLayout(d) == d.type = "tuple" /\ Len(d.items) = 2

(* Sample t is the symmetric matrix of the components c = [xx, yy, zz, xy, yz, xz] *)
BuiltFrom(t, c) ==
    /\ t[1][1] = c[1] /\ t[2][2] = c[2] /\ t[3][3] = c[3]
    /\ t[1][2] = c[4] /\ t[2][1] = c[4]
    /\ t[2][3] = c[5] /\ t[3][2] = c[5]
    /\ t[1][3] = c[6] /\ t[3][1] = c[6]

(* C5: data in neither layout fails with the format error (ImportError)    *)
(* and yields no instance; data in the three-element layout yields an      *)
(* instance holding the data's energies and one tensor sample per pair of  *)
(* real and imaginary component lists; data in the two-element layout      *)
(* yields an instance holding the data's energies and tensor array.        *)
C5_FormatErrorOrInstance ==
    diel.state # "none" =>
        LET d == diel.dielectric_data
        IN  /\ ~(ThreeElementLayout(d) \/ TwoElementLayout(d)) =>
                   diel.state = "raised" /\ diel.error = "ImportError"
            /\ ThreeElementLayout(d) =>
                   /\ diel.state = "constructed"
                   /\ diel.energies = d.items[1]
                   /\ Len(diel.dielectric_tensor) =
                          Min(Len(d.items[2]), Len(d.items[3]))
                   /\ \A i \in 1..Len(diel.dielectric_tensor) :
                          /\ BuiltFrom(diel.dielectric_tensor[i].re, d.items[2][i])
                          /\ BuiltFrom(diel.dielectric_tensor[i].im, d.items[3][i])
            /\ TwoElementLayout(d) =>
                   /\ diel.state = "constructed"
                   /\ diel.energies = d.items[1]
                   /\ diel.dielectric_tensor = d.items[2]

(* A tuple of four elements has been rejected *)
C5_Witness ==
    /\ diel.state = "raised"
    /\ diel.dielectric_data.type = "tuple"
    /\ Len(diel.dielectric_data.items) = 4

----------------------------------------------------------------------------
(* Construction of an EMRadSpectrum from data *)

(* C6: from_data returns a spectrum, of as many points as the data, exactly *)
(* when variable is energy or wavelength and spectrum_units is flux or     *)
(* power; in every other case it raises NotImplementedError and no         *)
(* spectrum exists.                                                        *)
C6_FromDataReturnsOrRaises ==
    rad.state # "none" =>
        IF rad.variable \in {"energy", "wavelength"}
               /\ rad.spectrum_units \in {"flux", "power"}
        THEN /\ rad.state = "constructed"
             /\ Len(rad.energy) = Len(rad.data[1])
             /\ Len(rad.photon_flux) = Len(rad.data[2])
        ELSE /\ rad.state = "raised"
             /\ rad.error = "NotImplementedError"

(* Known variable, unknown units: the error comes after the conversion *)
C6_Witness ==
    /\ rad.state = "raised"
    /\ rad.variable = "wavelength"
    /\ rad.spectrum_units \notin {"flux", "power"}

----------------------------------------------------------------------------
(* Inconsistent band gaps, the range of the efficiency, concurrent queries *)

(* C7: an slme query with a direct allowed gap below the indirect gap      *)
(* (fr > 1) that has returned has an efficiency and has flagged the        *)
(* inconsistency to the caller as a validation warning.                    *)
C7_InconsistentGapsFlagged ==
    \A q \in DOMAIN qry :
        (/\ qry[q].fn = "slme"
         /\ qry[q].material_direct_allowed_gap < qry[q].material_indirect_gap
         /\ qry[q].pc = "returned") =>
            /\ qry[q].efficiency.den > 0
            /\ \E w \in warnings : w.by = q /\ w.category = "ValidationWarning"

(* C8: the efficiency max_power / power_in of every query that has         *)
(* returned lies in [0, 1].                                                *)
C8_EfficiencyInUnitInterval ==
    \A q \in DOMAIN qry :
        qry[q].pc = "returned" =>
            /\ qry[q].efficiency.num >= 0
            /\ qry[q].efficiency.num <= qry[q].efficiency.den

(* The voltage an uninterrupted climb from V ends at *)
RECURSIVE ClimbAlone(_, _, _, _)
ClimbAlone(V, J_sc, J_0, temperature) ==
    IF FGt(power(V + voltage_step, J_sc, J_0, temperature),
           power(V, J_sc, J_0, temperature))
    THEN ClimbAlone(V + voltage_step, J_sc, J_0, temperature)
    ELSE V

AloneMaxPower(q) ==
    power(ClimbAlone(0, qry[q].J_sc, qry[q].J_0, qry[q].temperature),
          qry[q].J_sc, qry[q].J_0, qry[q].temperature)

(* C9: under every interleaving of two queries, the reference spectrum and *)
(* the caller's arrays are as they were, a query that has returned has the *)
(* efficiency of its own uninterrupted run, and what a query renders or    *)
(* saves holds nothing another query has written.                          *)
C9_NoSharedMutableState ==
    /\ am15g_dat = AM15G
    /\ caller_arrays = CallerArrays
    /\ \A q \in DOMAIN qry :
           /\ qry[q].pc = "returned" =>
                  qry[q].efficiency = [num |-> AloneMaxPower(q), den |-> power_in]
           /\ \A cv \in qry[q].rendered : cv.by = q
    /\ \A cv \in pp_png.curves : cv.by = pp_png.by

----------------------------------------------------------------------------
(* The round trip wavelength -> energy -> wavelength *)

(* C10: a wavelength grid converted to energies (from_data) and back to    *)
(* wavelengths (slme) is the original grid in the original order; each of  *)
(* the two conversions reverses the order of the array.                    *)
C10_RoundTripIsIdentity ==
    (/\ rad.state = "constructed"
     /\ rad.variable = "wavelength"
     /\ rad.material_wavelength_for_absorbance_data # <<>>) =>
        /\ \A i \in 1..Len(rad.energy) :
               rad.energy[i] * rad.data[1][Len(rad.energy) + 1 - i] = HC
        /\ rad.material_wavelength_for_absorbance_data = rad.data[1]

----------------------------------------------------------------------------
(* A constructed DielTensor *)

(* C11: a constructed DielTensor holds, whatever properties have been read *)
(* or computed since, the energy grid and the tensor samples its           *)
(* constructor stored; a read returns what is stored; and there are as     *)
(* many tensor samples as points of the energy grid.                       *)
C11_ImmutableAndCoIndexed ==
    diel.state = "constructed" =>
        /\ diel.energies = parse_dielectric_data(diel.dielectric_data).energies
        /\ diel.dielectric_tensor =
               parse_dielectric_data(diel.dielectric_data).dielectric_tensor
        /\ out.fn = "energies" => out.value = diel.energies
        /\ out.fn = "dielectric_tensor" => out.value = diel.dielectric_tensor
        /\ out.fn = "dielectric_function" =>
               Len(out.value) = Len(diel.dielectric_tensor)
        /\ Len(diel.dielectric_tensor) = Len(diel.energies)

----------------------------------------------------------------------------
(* Matrices from components *)

Count(s, v) == Cardinality({i \in 1..Len(s) : s[i] = v})

(* C12: the matrix to_matrix builds from (xx, yy, zz, xy, yz, xz) is        *)
(* symmetric with xx, yy, zz on the diagonal and M[0][1] = xy, M[1][2] =   *)
(* yz, M[0][2] = xz; when xy = yz = xz = 0 every off-diagonal entry is 0   *)
(* and the eigenvalues extracted from it are xx, yy, zz, each as often as  *)
(* it occurs among the three, in some order.                               *)
C12_SymmetricMatrixAndEigvals ==
    out.fn \in {"to_matrix", "matrix_eigvals"} =>
        LET M == IF out.fn = "to_matrix" THEN out.value ELSE out.matrix
            a == out.args
        IN  /\ M[1][1] = a.xx /\ M[2][2] = a.yy /\ M[3][3] = a.zz
            /\ M[1][2] = a.xy /\ M[2][3] = a.yz /\ M[1][3] = a.xz
            /\ \A i \in 1..3 : \A j \in 1..3 : M[i][j] = M[j][i]
            /\ (a.xy = 0 /\ a.yz = 0 /\ a.xz = 0) =>
                   /\ \A i \in 1..3 : \A j \in 1..3 : i # j => M[i][j] = 0
                   /\ out.fn = "matrix_eigvals" =>
                          /\ Len(out.value) = 3
                          /\ \A v \in {a.xx, a.yy, a.zz} :
                                 Count(out.value, v) = Count(<<a.xx, a.yy, a.zz>>, v)

(* The eigenvalues of a diagonal matrix with a repeated entry *)
C12_Witness ==
    /\ out.fn = "matrix_eigvals"
    /\ out.args.xy = 0 /\ out.args.yz = 0 /\ out.args.xz = 0
    /\ out.args.xx = out.args.yy
    /\ out.args.zz # out.args.xx

----------------------------------------------------------------------------
(* Outside the range of the absorption data *)

(* The absorbance slme works with, at data index j *)
DataAbsorbance(q, j) ==
    ScaledAbsorbance(caller_arrays[qry[q].data].absorbance,
                     qry[q].absorbance_in_inverse_centimeters)[j]

(* C13: in slme, at a solar grid point that the cut-off leaves alone, the  *)
(* absorption used for a photon energy above the highest data energy       *)
(* (h*c/wavelength > E_max) is the data value at the highest data energy,  *)
(* and for a photon energy below the lowest data energy it is the data     *)
(* value at the lowest data energy.                                        *)
C13_NearestBoundaryValue ==
    \A q \in DOMAIN qry :
        (qry[q].fn = "slme" /\ Integrated(q)) =>
            LET energy == caller_arrays[qry[q].data].energy
                n == Len(energy)
            IN  \A i \in 1..NSolar :
                    (\/ ~qry[q].cut_off_absorbance_below_direct_allowed_gap
                     \/ solar_spectra_wavelength[i]
                            * qry[q].material_direct_allowed_gap < HC) =>
                        /\ solar_spectra_wavelength[i] * energy[n] < HC =>
                               qry[q].material_interpolated_absorbance[i]
                                   = DataAbsorbance(q, n)
                        /\ solar_spectra_wavelength[i] * energy[1] > HC =>
                               qry[q].material_interpolated_absorbance[i]
                                   = DataAbsorbance(q, 1)

----------------------------------------------------------------------------
(* The integration arrays of calculate_SQ *)

StrictlyIncreasing(s) == \A i \in 1..(Len(s) - 1) : s[i] < s[i + 1]

(* The solar grid wavelengths strictly shorter than h*c/E_g, in grid order *)
ShorterThanGap(bandgap_ev) ==
    SelectSeq(solar_spectra_wavelength, LAMBDA x : x * bandgap_ev < HC)

(* C14: in calculate_SQ, for every band gap, the integration wavelength    *)
(* array is the solar grid wavelengths strictly shorter than h*c/E_g in    *)
(* their original order followed by h*c/E_g as the last point: it is       *)
(* non-empty, strictly increasing, holds no wavelength longer than         *)
(* h*c/E_g and ends at it, and the solar-flux and blackbody integration    *)
(* arrays have its length.                                                 *)
C14_IntegrationArrays ==
    \A q \in DOMAIN qry :
        (qry[q].fn = "calculate_SQ" /\ Integrated(q)) =>
            LET w == qry[q].integration_wavelength
                n == Len(w)
                gap == FDiv(HC, qry[q].bandgap_ev)
            IN  /\ n >= 1
                /\ SubSeq(w, 1, n - 1) = ShorterThanGap(qry[q].bandgap_ev)
                /\ w[n] = gap
                /\ StrictlyIncreasing(w)
                /\ \A i \in 1..n : w[i] <= gap
                /\ Len(qry[q].integration_solar_flux) = n
                /\ Len(qry[q].integration_blackbody) = n

(* calculate_SQ has integrated for a band gap whose wavelength is a point  *)
(* of the solar grid, with grid points on both sides of it                 *)
C14_Witness ==
    \E q \in DOMAIN qry :
        /\ qry[q].fn = "calculate_SQ"
        /\ Integrated(q)
        /\ \E i \in 2..(NSolar - 1) :
               solar_spectra_wavelength[i] * qry[q].bandgap_ev = HC
        /\ Len(qry[q].integration_wavelength) \in 2..NSolar

----------------------------------------------------------------------------
(* Grid and spectrum of a spectrum given over wavelengths *)

(* The photon flux that one input sample (wavelength, value) becomes *)
FluxOfSample(wavelength, value, spectrum_units) ==
    LET energy == FDiv(HC, wavelength)
        per_energy == FDiv(FMul(value, HC), FMul(energy, energy))
    IN  IF spectrum_units = "power"
        THEN FDiv(per_energy, FMul(ElemCharge, energy))
        ELSE per_energy

(* C15: from_data on a strictly increasing grid of N positive wavelengths  *)
(* gives a strictly increasing energy grid, and the energy and the photon  *)
(* flux at output position i both come from the input sample at the        *)
(* mirrored position (N-1-i counting from 0, N+1-i counting from 1).       *)
C15_FlippedTogether ==
    (/\ rad.state = "constructed"
     /\ rad.variable = "wavelength"
     /\ StrictlyIncreasing(rad.data[1])
     /\ \A i \in 1..Len(rad.data[1]) : rad.data[1][i] > 0) =>
        LET N == Len(rad.data[1])
        IN  /\ Len(rad.energy) = N
            /\ Len(rad.photon_flux) = N
            /\ StrictlyIncreasing(rad.energy)
            /\ \A i \in 1..N :
                   /\ rad.energy[i] = FDiv(HC, rad.data[1][N + 1 - i])
                   /\ rad.photon_flux[i] =
                          FluxOfSample(rad.data[1][N + 1 - i],
                                       rad.data[2][N + 1 - i],
                                       rad.spectrum_units)

(* A power spectrum on three wavelengths whose values differ end to end *)
C15_Witness ==
    /\ rad.state = "constructed"
    /\ rad.variable = "wavelength"
    /\ rad.spectrum_units = "power"
    /\ Len(rad.data[1]) = 3
    /\ rad.data[2][1] # rad.data[2][3]
    /\ rad.photon_flux[1] # rad.photon_flux[3]

----------------------------------------------------------------------------
(* Equal gaps *)

(* C16: an slme query whose direct allowed gap equals its indirect         *)
(* (fundamental) gap has fr exactly 1 and J_0 = J_0_r, so the current and  *)
(* the power it climbs are those of the diode equation of calculate_SQ     *)
(* with its default fr = 1, in which J_0 is J_0_r as well.                 *)
C16_EqualGapsRadiativeLimit ==
    \A q \in DOMAIN qry :
        /\ (/\ qry[q].fn = "slme"
            /\ Integrated(q)
            /\ qry[q].material_direct_allowed_gap = qry[q].material_indirect_gap) =>
               /\ qry[q].fr = One
               /\ qry[q].J_0 = qry[q].J_0_r
               /\ power_of(q, qry[q].test_voltage) =
                      power(qry[q].test_voltage, qry[q].J_sc, qry[q].J_0_r,
                            qry[q].temperature)
               /\ Searched(q) =>
                      qry[q].max_power =
                          power(qry[q].test_voltage, qry[q].J_sc, qry[q].J_0_r,
                                qry[q].temperature)
        /\ (/\ qry[q].fn = "calculate_SQ"
            /\ Integrated(q)
            /\ qry[q].fr_arg = One) =>
               /\ qry[q].fr = One
               /\ qry[q].J_0 = qry[q].J_0_r

(* An slme query with equal gaps and a recombination current has climbed   *)
(* to a positive maximum power                                             *)
C16_Witness ==
    \E q \in DOMAIN qry :
        /\ qry[q].fn = "slme"
        /\ Searched(q)
        /\ qry[q].material_direct_allowed_gap = qry[q].material_indirect_gap
        /\ qry[q].J_0_r > 0
        /\ qry[q].J_0_r < PInf
        /\ qry[q].test_voltage > 0
        /\ qry[q].max_power > 0

----------------------------------------------------------------------------
(* The voltages the hill-climb visits *)

(* The query is in the while loop or has left it *)
InClimb(q) == qry[q].pc = "climb" \/ Searched(q)

(* C17: at every iteration of the hill-climb the test voltage is a         *)
(* non-negative multiple of voltage_step and its power is strictly greater *)
(* than the power at every voltage visited before; power(0) is 0, and the  *)
(* reported max_power is the largest power over the visited voltages and   *)
(* is not below 0.                                                         *)
C17_PowerAboveAllVisited ==
    \A q \in DOMAIN qry :
        InClimb(q) =>
            /\ qry[q].test_voltage >= 0
            /\ qry[q].test_voltage % voltage_step = 0
            /\ \A v \in Accepted(q) :
                   FGt(power_of(q, qry[q].test_voltage), power_of(q, v))
            /\ power_of(q, 0) = 0
            /\ Searched(q) =>
                   /\ \A v \in Accepted(q) \cup {qry[q].test_voltage} :
                          FLe(power_of(q, v), qry[q].max_power)
                   /\ FLe(0, qry[q].max_power)

====
